---- MODULE Spec2Model ----
(***************************************************************************)
(* Model of tcparse/stcmd.py: render() and main(), the generation of an    *)
(* EPICS st.cmd from a TwinCAT3 project.                                   *)
(*                                                                         *)
(* Python strings are sequences of one-character strings, so that          *)
(* str.replace, str.upper and concatenation are computed, not assumed.     *)
(* None is a value that is no string.                                      *)
(***************************************************************************)
EXTENDS Integers, Sequences, FiniteSets, TLC

VARIABLES
    pytmc,                \* TRUE iff "import pytmc" succeeded (stcmd.py:16-22)
    args,                 \* the argparse namespace handed to render()
    project,              \* what load_project(args.tsproj_project) returns
    pc,                   \* position of the run inside main()/render()
    motors,               \* render(): motors
    pytmc_info,           \* render(): pytmc_info, keyed by motor identity
    template_motors,      \* render(): template_motors
    ads_port,             \* render(): ads_port (0 while unbound)
    additional_db_files,  \* render(): additional_db_files
    i,                    \* index of the nested project the loop is at
    calls,                \* nested projects render_pytmc was called for
    writes,               \* record files opened and written, in order
    disk,                 \* the files under db_path: path -> text
    log,                  \* messages logged by render() itself
    exit_status,          \* process exit status: "running", "0" or "1"
    rendered,             \* the template_args handed to template.render, if any
    printed               \* TRUE once main() printed the template

vars == <<pytmc, args, project, pc, motors, pytmc_info, template_motors,
          ads_port, additional_db_files, i, calls, writes, disk, log,
          exit_status, rendered, printed>>

-----------------------------------------------------------------------------
(* Bounds of the model *)

MaxMotors == 2
MaxNested == 2
MaxLen == 3
MaxBlocks == 2
MaxLines == 2

(* Values *)

None == <<"None">>
Unset == <<"Unset">>

RECURSIVE BSeq(_, _)
BSeq(S, n) ==
    IF n = 0 THEN {<< >>}
    ELSE LET shorter == BSeq(S, n - 1)
         IN  shorter \cup {Append(s, x) : s \in {t \in shorter : Len(t) = n - 1}, x \in S}

-----------------------------------------------------------------------------
(* Python built-ins used by render() *)

\* A variant of str.replace that replaces the first occurrence only.
RECURSIVE ReplaceFirstOnly(_, _, _)
ReplaceFirstOnly(s, old, new) ==
    IF s = << >> THEN << >>
    ELSE IF Head(s) = old THEN new \o Tail(s)
         ELSE <<Head(s)>> \o ReplaceFirstOnly(Tail(s), old, new)

\* str.replace(old, new) for a one-character old: a left-to-right scan that
\* never rescans what it has inserted.
RECURSIVE Replace(_, _, _)
Replace(s, old, new) ==
    IF s = << >> THEN << >>
    ELSE IF Head(s) = old THEN new \o Replace(Tail(s), old, new)
         ELSE <<Head(s)>> \o Replace(Tail(s), old, new)

UpperChar(c) ==
    CASE c = "i" -> "I"
      [] c = "o" -> "O"
      [] c = "c" -> "C"
      [] c = "x" -> "X"
      [] c = "s" -> "S"
      [] OTHER -> c

\* str.upper()
Upper(s) == [k \in 1..Len(s) |-> UpperChar(s[k])]

\* Python truthiness of a value that is None or a string
Truthy(v) == v # None /\ v # << >>

\* x or d
Or(x, d) == IF Truthy(x) THEN x ELSE d

-----------------------------------------------------------------------------
(* pytmc and tcparse.parse, as render() uses them *)

\* pytmc.xml_obj.Configuration(text): the pragma lines of one block
PytmcConfiguration(text) == [config_lines |-> text]

\* Configuration.get_config_lines(key): the lines titled key, in source order
get_config_lines(config, key) ==
    SelectSeq(config.config_lines, LAMBDA line : line.title = key)

\* Symbol_FB_DriveVirtual.nc_axis: the linked axis, or the unresolved result
nc_axis_of(motor) == motor.nc_axis

\* project.find(Symbol_FB_DriveVirtual): the symbols in traversal order
find_Symbol_FB_DriveVirtual(proj) == proj.symbols

\* motor.find(Property)
find_Property(motor) == motor.props

-----------------------------------------------------------------------------
(* The closures of render() *)

DefaultPort == 851

\* A variant of the block scan in which the last match of a block wins.
RECURSIVE get_pytmc_last_match(_, _)
get_pytmc_last_match(configs, key) ==
    IF configs = << >> THEN None
    ELSE LET matches == get_config_lines(Head(configs), key)
         IN  IF matches # << >> THEN matches[Len(matches)].tag
             ELSE get_pytmc_last_match(Tail(configs), key)

\* The loop of get_pytmc: "for config in pytmc_info[motor]"; falling off the
\* end of the loop returns None.
RECURSIVE get_pytmc_scan(_, _)
get_pytmc_scan(configs, key) ==
    IF configs = << >> THEN None
    ELSE LET matches == get_config_lines(Head(configs), key)
         IN  IF matches # << >> THEN matches[1].tag
             ELSE get_pytmc_scan(Tail(configs), key)

get_pytmc(motor, nc_axis, key) ==
    IF ~pytmc THEN None
    ELSE get_pytmc_scan(pytmc_info[motor.id], key)

\* A variant of get_name that prefixes a pragma name like a derived one.
get_name_prefixed(motor, nc_axis) ==
    LET tmc_name == get_pytmc(motor, nc_axis, "pv")
    IN  IF tmc_name # None
        THEN [raised |-> FALSE, value |-> <<args.prefix \o args.delim, tmc_name>>]
        ELSE IF ~nc_axis.resolved
             THEN [raised |-> TRUE, value |-> None]
             ELSE [raised |-> FALSE,
                   value |-> <<args.prefix \o args.delim,
                               Replace(Replace(nc_axis.short_name, " ", args.delim),
                                       "_", args.delim)>>]

\* get_name returns (motor_prefix, motor_name); reading short_name of an
\* unresolved axis raises.
get_name(motor, nc_axis) ==
    LET tmc_name == get_pytmc(motor, nc_axis, "pv")
    IN  IF tmc_name # None
        THEN [raised |-> FALSE, value |-> <<<< >>, tmc_name>>]
        ELSE IF ~nc_axis.resolved
             THEN [raised |-> TRUE, value |-> None]
             ELSE [raised |-> FALSE,
                   value |-> <<args.prefix \o args.delim,
                               Replace(Replace(nc_axis.short_name, " ", args.delim),
                                       "_", args.delim)>>]

\* Does building the dict of one motor raise?  name= may raise in get_name,
\* axis_no= reads nc_axis.axis_number.
template_motor_raises(motor, nc_axis) ==
    get_name(motor, nc_axis).raised \/ ~nc_axis.resolved

\* One element of template_motors
template_motor(motor, nc_axis) ==
    [axisconfig |-> << >>,
     name |-> get_name(motor, nc_axis).value,
     axis_no |-> nc_axis.axis_number,
     desc |-> <<motor.name, nc_axis.short_name>>,
     egu |-> nc_axis.units,
     prec |-> Or(get_pytmc(motor, nc_axis, "precision"), <<"3">>),
     additional_fields |-> Or(get_pytmc(motor, nc_axis, "additional_fields"), << >>),
     amplifier_flags |-> Or(get_pytmc(motor, nc_axis, "amplifier_flags"), <<"0">>)]

\* A variant of the port choice that takes the last motor's module.
ads_port_of_last(ms) ==
    IF ms # << >> THEN ms[Len(ms)][1].module.ads_port ELSE DefaultPort

\* motors[0][0].module.ads_port if motors else 851
ads_port_of(ms) ==
    IF ms # << >> THEN ms[1][1].module.ads_port ELSE DefaultPort

\* A variant of render_pytmc that swallows the LinterError and renders.
render_pytmc_lenient(tmc_file) ==
    [exit |-> FALSE, text |-> tmc_file.records]

\* render_pytmc: sys.exit(1) on LinterError, else tmc_file_obj.render()
render_pytmc(tmc_file) ==
    IF tmc_file.lint_error
    THEN [exit |-> TRUE, text |-> None]
    ELSE [exit |-> FALSE, text |-> tmc_file.records]

\* f'{proj.filename.stem}.db'
db_filename_of(proj) == proj.filename.stem \o <<".", "d", "b">>

\* pathlib.Path(args.db_path) / db_filename
db_path_of(db_filename) == <<args.db_path, db_filename>>

\* The file system after open(db_path, 'wt') and write(text)
WriteFile(files, path, text) ==
    [p \in (DOMAIN files) \cup {path} |-> IF p = path THEN text ELSE files[p]]

-----------------------------------------------------------------------------
(* The inputs of a run *)

Axis(n, short_name) ==
    [resolved |-> TRUE, short_name |-> short_name, axis_number |-> n,
     units |-> <<"m", "m">>]

UnresolvedAxis == [resolved |-> FALSE]

Line(title, tag) == [title |-> title, tag |-> tag]

\* A Property whose first Value carries the given pragma lines
Prop(name, lines) == [name |-> name, Value |-> <<[text |-> lines]>>]

SymbolBody(port, axis, props) ==
    [module |-> [ads_port |-> port], nc_axis |-> axis, props |-> props]

\* The symbols of a project in find order; a symbol's identity and name is
\* its position.
Symbols(bodies) ==
    [k \in 1..Len(bodies) |->
        [id |-> k, name |-> k, module |-> bodies[k].module,
         nc_axis |-> bodies[k].nc_axis, props |-> bodies[k].props]]

NestedProject(parent, stem, lint_error, records) ==
    [filename |-> [parent |-> parent, stem |-> stem],
     tmc |-> [filename |-> <<parent, stem, "tmc">>,
              lint_error |-> lint_error, records |-> records]]

Args(prefix, name, delim, all_records) ==
    [tsproj_project |-> [stem |-> <<"x", "s">>],
     prefix |-> prefix, name |-> name, delim |-> delim,
     all_records |-> all_records, db_path |-> <<".">>, dbd |-> None]

InitWith(SymbolSeqs, NestedSeqs, ArgSet) ==
    /\ pytmc \in BOOLEAN
    /\ args \in ArgSet
    /\ \E bodies \in SymbolSeqs, nested \in NestedSeqs :
          project = [symbols |-> Symbols(bodies), nested_projects |-> nested]
    /\ pc = "start"
    /\ motors = Unset
    /\ pytmc_info = Unset
    /\ template_motors = Unset
    /\ ads_port = 0
    /\ additional_db_files = Unset
    /\ i = 0
    /\ calls = << >>
    /\ writes = << >>
    /\ disk = << >>
    /\ log = << >>
    /\ exit_status = "running"
    /\ rendered = << >>
    /\ printed = FALSE

-----------------------------------------------------------------------------
(* render(), statement by statement *)

\* [(motor, motor.nc_axis) for motor in project.find(Symbol_FB_DriveVirtual)]
motors_of(proj) ==
    [k \in 1..Len(find_Symbol_FB_DriveVirtual(proj)) |->
        <<find_Symbol_FB_DriveVirtual(proj)[k],
          nc_axis_of(find_Symbol_FB_DriveVirtual(proj)[k])>>]

\* {motor: [PytmcConfiguration(prop.Value[0].text)
\*          for prop in motor.find(Property) if prop.name == 'pytmc']}
pytmc_info_of(ms) ==
    [k \in 1..Len(ms) |->
        LET named == SelectSeq(find_Property(ms[k][1]),
                               LAMBDA prop : prop.name = "pytmc")
        IN  [n \in 1..Len(named) |-> PytmcConfiguration(named[n].Value[1].text)]]

\* Lines 123-133: the defaults of name and prefix, the project, the motors
LoadProject ==
    /\ pc = "start"
    /\ LET name == IF Truthy(args.name) THEN args.name
                   ELSE args.tsproj_project.stem
           prefix == IF Truthy(args.prefix) THEN args.prefix ELSE Upper(name)
       IN  args' = [args EXCEPT !.name = name, !.prefix = prefix]
    /\ motors' = motors_of(project)
    /\ pc' = "pytmc_info"
    /\ UNCHANGED <<pytmc, project, pytmc_info, template_motors, ads_port,
                   additional_db_files, i, calls, writes, disk, log,
                   exit_status, rendered, printed>>

\* Lines 166-173
BuildPytmcInfo ==
    /\ pc = "pytmc_info"
    /\ pytmc_info' = IF pytmc THEN pytmc_info_of(motors) ELSE pytmc_info
    /\ pc' = "template_motors"
    /\ UNCHANGED <<pytmc, args, project, motors, template_motors, ads_port,
                   additional_db_files, i, calls, writes, disk, log,
                   exit_status, rendered, printed>>

\* Lines 175-188: the comprehension raises at the first motor whose dict
\* cannot be built, and the exception leaves main() with status 1.
BuildTemplateMotors ==
    /\ pc = "template_motors"
    /\ IF \E k \in 1..Len(motors) : template_motor_raises(motors[k][1], motors[k][2])
       THEN /\ pc' = "raised"
            /\ exit_status' = "1"
            /\ UNCHANGED template_motors
       ELSE /\ template_motors' =
                   [k \in 1..Len(motors) |-> template_motor(motors[k][1], motors[k][2])]
            /\ pc' = "ads_port"
            /\ UNCHANGED exit_status
    /\ UNCHANGED <<pytmc, args, project, motors, pytmc_info, ads_port,
                   additional_db_files, i, calls, writes, disk, log,
                   rendered, printed>>

\* Line 191
ChooseAdsPort ==
    /\ pc = "ads_port"
    /\ ads_port' = ads_port_of(motors)
    /\ pc' = "all_records"
    /\ UNCHANGED <<pytmc, args, project, motors, pytmc_info, template_motors,
                   additional_db_files, i, calls, writes, disk, log,
                   exit_status, rendered, printed>>

\* A variant of lines 193-197 without the check of the capability.
AllRecords_unchecked ==
    /\ pc = "all_records"
    /\ additional_db_files' = << >>
    /\ pc' = IF args.all_records /\ pytmc /\ project.nested_projects # << >>
             THEN "nested" ELSE "render"
    /\ i' = IF args.all_records /\ pytmc THEN 1 ELSE i
    /\ UNCHANGED <<pytmc, args, project, motors, pytmc_info, template_motors,
                   ads_port, calls, writes, disk, log, exit_status, rendered,
                   printed>>

\* Lines 193-199: the empty list, the check of the capability, and the entry
\* into the loop over project.nested_projects
AllRecords ==
    /\ pc = "all_records"
    /\ additional_db_files' = << >>
    /\ IF args.all_records
       THEN IF ~pytmc
            THEN /\ log' = Append(log, "pytmc unavailable; cannot use --all-records.")
                 /\ exit_status' = "1"
                 /\ pc' = "exited"
                 /\ UNCHANGED i
            ELSE /\ i' = 1
                 /\ pc' = IF project.nested_projects # << >> THEN "nested" ELSE "render"
                 /\ UNCHANGED <<log, exit_status>>
       ELSE /\ pc' = "render"
            /\ UNCHANGED <<i, log, exit_status>>
    /\ UNCHANGED <<pytmc, args, project, motors, pytmc_info, template_motors,
                   ads_port, calls, writes, disk, rendered, printed>>

\* A variant of the loop body that lists a project whose record text is empty.
NestedProjectStep_no_skip ==
    /\ pc = "nested"
    /\ LET proj == project.nested_projects[i]
           r == render_pytmc(proj.tmc)
           db_filename == db_filename_of(proj)
       IN  /\ calls' = Append(calls, i)
           /\ IF r.exit
              THEN /\ exit_status' = "1"
                   /\ pc' = "exited"
                   /\ UNCHANGED <<i, writes, disk, additional_db_files, log>>
              ELSE /\ writes' = Append(writes, [proj |-> i, path |-> db_path_of(db_filename),
                                                text |-> r.text])
                   /\ disk' = WriteFile(disk, db_path_of(db_filename), r.text)
                   /\ additional_db_files' =
                          Append(additional_db_files,
                                 [file |-> db_filename, macros |-> << >>])
                   /\ i' = i + 1
                   /\ pc' = IF i < Len(project.nested_projects) THEN "nested" ELSE "render"
                   /\ UNCHANGED <<log, exit_status>>
    /\ UNCHANGED <<pytmc, args, project, motors, pytmc_info, template_motors,
                   ads_port, rendered, printed>>

\* A variant of the loop body that removes the record files written so far
\* when the generator reports a lint failure.
NestedProjectStep_rollback ==
    /\ pc = "nested"
    /\ LET proj == project.nested_projects[i]
           r == render_pytmc(proj.tmc)
           db_filename == db_filename_of(proj)
       IN  /\ calls' = Append(calls, i)
           /\ IF r.exit
              THEN /\ exit_status' = "1"
                   /\ pc' = "exited"
                   /\ disk' = << >>
                   /\ UNCHANGED <<i, writes, additional_db_files, log>>
              ELSE /\ IF ~Truthy(r.text)
                      THEN /\ log' = Append(log, "No additional records from pytmc found in %s")
                           /\ UNCHANGED <<writes, disk, additional_db_files>>
                      ELSE /\ writes' = Append(writes, [proj |-> i,
                                                        path |-> db_path_of(db_filename),
                                                        text |-> r.text])
                           /\ disk' = WriteFile(disk, db_path_of(db_filename), r.text)
                           /\ additional_db_files' =
                                  Append(additional_db_files,
                                         [file |-> db_filename, macros |-> << >>])
                           /\ UNCHANGED log
                   /\ i' = i + 1
                   /\ pc' = IF i < Len(project.nested_projects) THEN "nested" ELSE "render"
                   /\ UNCHANGED exit_status
    /\ UNCHANGED <<pytmc, args, project, motors, pytmc_info, template_motors,
                   ads_port, rendered, printed>>

\* Lines 199-210: one iteration of "for proj in project.nested_projects"
NestedProjectStep ==
    /\ pc = "nested"
    /\ LET proj == project.nested_projects[i]
           r == render_pytmc(proj.tmc)
           db_filename == db_filename_of(proj)
       IN  /\ calls' = Append(calls, i)
           /\ IF r.exit
              THEN /\ exit_status' = "1"
                   /\ pc' = "exited"
                   /\ UNCHANGED <<i, writes, disk, additional_db_files, log>>
              ELSE /\ IF ~Truthy(r.text)
                      THEN /\ log' = Append(log, "No additional records from pytmc found in %s")
                           /\ UNCHANGED <<writes, disk, additional_db_files>>
                      ELSE /\ writes' = Append(writes, [proj |-> i,
                                                        path |-> db_path_of(db_filename),
                                                        text |-> r.text])
                           /\ disk' = WriteFile(disk, db_path_of(db_filename), r.text)
                           /\ additional_db_files' =
                                  Append(additional_db_files,
                                         [file |-> db_filename, macros |-> << >>])
                           /\ UNCHANGED log
                   /\ i' = i + 1
                   /\ pc' = IF i < Len(project.nested_projects) THEN "nested" ELSE "render"
                   /\ UNCHANGED exit_status
    /\ UNCHANGED <<pytmc, args, project, motors, pytmc_info, template_motors,
                   ads_port, rendered, printed>>

\* Lines 212-229: template_args, template.render and the return
RenderTemplate ==
    /\ pc = "render"
    /\ rendered' = <<[prefix |-> args.prefix, name |-> args.name, delim |-> args.delim,
                    plc_ads_port |-> ads_port, motors |-> template_motors,
                    additional_db_files |-> additional_db_files]>>
    /\ pc' = "returned"
    /\ UNCHANGED <<pytmc, args, project, motors, pytmc_info, template_motors,
                   ads_port, additional_db_files, i, calls, writes, disk, log,
                   exit_status, printed>>

\* main(): print(template), and the process ends with status 0
PrintTemplate ==
    /\ pc = "returned"
    /\ printed' = TRUE
    /\ exit_status' = "0"
    /\ pc' = "done"
    /\ UNCHANGED <<pytmc, args, project, motors, pytmc_info, template_motors,
                   ads_port, additional_db_files, i, calls, writes, disk, log,
                   rendered>>

Next ==
    \/ LoadProject
    \/ BuildPytmcInfo
    \/ BuildTemplateMotors
    \/ ChooseAdsPort
    \/ AllRecords
    \/ NestedProjectStep
    \/ RenderTemplate
    \/ PrintTemplate

-----------------------------------------------------------------------------
(* The families of inputs *)

Ports == {DefaultPort, DefaultPort + 1}

PvBlock == Prop("pytmc", <<Line("pv", <<"A">>)>>)

FieldsBlock == Prop("pytmc", <<Line("precision", <<"2">>), Line("amplifier_flags", <<"5">>)>>)

ExampleShortName == <<"X", " ", "A", "x", "i", "s", "_", "1">>

DefaultArgs(all_records) == Args(<<"I", "O", "C">>, None, <<":">>, all_records)

\* Arguments with and without --prefix and --name
ArgSet ==
    {Args(prefix, name, <<":">>, all_records) :
        prefix \in {None, <<"I", "O", "C">>}, name \in {None, <<"i", "o", "c">>},
        all_records \in BOOLEAN}

\* A few symbol lists and nested-project lists that let a run take every path
FewSymbolSeqs ==
    {<< >>,
     <<SymbolBody(DefaultPort + 1, Axis(1, <<"X">>), << >>)>>,
     <<SymbolBody(DefaultPort + 1, UnresolvedAxis, << >>)>>}

FewNestedSeqs ==
    {<< >>,
     <<NestedProject("a", <<"p">>, TRUE, << >>)>>,
     <<NestedProject("a", <<"p">>, FALSE, << >>),
       NestedProject("b", <<"q">>, FALSE, <<"R1">>)>>}

\* Motor resolution: up to MaxMotors symbols, with and without an axis, in
\* modules of different ports, with and without pragmas
MotorBodies ==
    {SymbolBody(port, axis, props) :
        port \in Ports,
        axis \in {UnresolvedAxis, Axis(1, <<"X", " ", "A">>)},
        props \in {<< >>, <<PvBlock>>, <<FieldsBlock>>}}

Init == InitWith(BSeq(MotorBodies, MaxMotors), FewNestedSeqs,
                 {DefaultArgs(a) : a \in BOOLEAN})

Spec == Init /\ [][Next]_vars

\* Record generation: up to MaxNested nested projects in different files
NestedChoices ==
    {NestedProject(parent, stem, FALSE, records) :
        parent \in {"a", "b"}, stem \in {<<"p">>, <<"q">>},
        records \in {<< >>, <<"R1">>, <<"R2">>}}
    \cup {NestedProject(parent, stem, TRUE, << >>) :
             parent \in {"a", "b"}, stem \in {<<"p">>, <<"q">>}}

NestedSeqs ==
    {ns \in BSeq(NestedChoices, MaxNested) :
        \A m, n \in 1..Len(ns) : m # n => ns[m].filename # ns[n].filename}

InitRecords == InitWith(FewSymbolSeqs, NestedSeqs, {DefaultArgs(a) : a \in BOOLEAN})

SpecRecords == InitRecords /\ [][Next]_vars

\* Names: one symbol whose axis has any short name of up to MaxLen characters
Chars == {"X", " ", "_"}

ShortNames == BSeq(Chars, MaxLen) \cup {ExampleShortName}

Delims == {<< >>, <<":">>, <<"_">>, <<" ">>, <<"_", ":">>, <<" ", "_">>}

LatePvProps ==
    <<FieldsBlock,
      Prop("pytmc", <<Line("pv", <<"B", " ", "_">>), Line("pv", <<"A">>)>>),
      PvBlock>>

NameBodies ==
    {<<SymbolBody(DefaultPort, Axis(1, sn), props)>> :
        sn \in ShortNames, props \in {<< >>, <<PvBlock>>, LatePvProps}}
    \cup {<<SymbolBody(DefaultPort, UnresolvedAxis, <<PvBlock>>)>>}

NameArgSet ==
    {Args(prefix, name, delim, all_records) :
        prefix \in {None, <<"I", "O", "C">>}, name \in {None, <<"i", "o", "c">>},
        delim \in Delims, all_records \in BOOLEAN}

InitNames == InitWith(NameBodies, FewNestedSeqs, NameArgSet)

SpecNames == InitNames /\ [][Next]_vars

\* Pragmas: one symbol with up to MaxBlocks properties carrying up to
\* MaxLines pragma lines in all; the lines are about one key, with tags that
\* differ and an empty one, and about one other key
Keys == {"pv", "precision", "additional_fields", "amplifier_flags"}

OtherKey(key) ==
    CASE key = "pv" -> "precision"
      [] key = "precision" -> "amplifier_flags"
      [] key = "amplifier_flags" -> "additional_fields"
      [] key = "additional_fields" -> "pv"

LinesAbout(key) ==
    {Line(key, <<"A">>), Line(key, <<"B">>), Line(key, << >>),
     Line(OtherKey(key), <<"B">>)}

OtherProp == Prop("TcDisplayScale", <<Line("pv", <<"B">>), Line("precision", <<"B">>)>>)

RECURSIVE PropSeqs(_, _, _)
PropSeqs(lineSet, blocks, lines) ==
    IF blocks = 0 THEN {<< >>}
    ELSE {<< >>}
         \cup UNION {{<<Prop("pytmc", text)>> \o rest :
                        rest \in PropSeqs(lineSet, blocks - 1, lines - Len(text))} :
                     text \in BSeq(lineSet, lines)}
         \cup {<<OtherProp>> \o rest : rest \in PropSeqs(lineSet, blocks - 1, lines)}

PragmaBodies ==
    {<<SymbolBody(DefaultPort, Axis(1, <<"X">>), props)>> :
        props \in UNION {PropSeqs(LinesAbout(key), MaxBlocks, MaxLines) : key \in Keys}}
    \cup {<<SymbolBody(DefaultPort, UnresolvedAxis, << >>)>>}

InitPragmas == InitWith(PragmaBodies, FewNestedSeqs, {DefaultArgs(a) : a \in BOOLEAN})

SpecPragmas == InitPragmas /\ [][Next]_vars

-----------------------------------------------------------------------------
(* What the claims speak about, stated from the inputs of the run *)

Completed == pc \in {"returned", "done"}

MotorsListed == pc # "start"

ClosuresCallable == pc \notin {"start", "pytmc_info"}

MotorsBuilt == pc \notin {"start", "pytmc_info", "template_motors", "raised"}

PortChosen == MotorsBuilt /\ pc # "ads_port"

ResolvedSymbols == SelectSeq(project.symbols, LAMBDA sym : sym.nc_axis.resolved)

\* All pragma lines of a symbol: its metadata blocks in declaration order,
\* the lines of a block in source order
RECURSIVE PragmaLines(_)
PragmaLines(props) ==
    IF props = << >> THEN << >>
    ELSE (IF Head(props).name = "pytmc" THEN Head(props).Value[1].text ELSE << >>)
         \o PragmaLines(Tail(props))

Matches(sym, key) == SelectSeq(PragmaLines(sym.props), LAMBDA line : line.title = key)

HasPragma(sym, key) == Matches(sym, key) # << >>

FirstTag(sym, key) == Head(Matches(sym, key)).tag

\* s.split(c) and d.join(segments)
RECURSIVE Split(_, _)
Split(s, c) ==
    IF \A k \in 1..Len(s) : s[k] # c THEN <<s>>
    ELSE LET p == CHOOSE k \in 1..Len(s) : s[k] = c /\ \A j \in 1..(k - 1) : s[j] # c
         IN  <<SubSeq(s, 1, p - 1)>> \o Split(SubSeq(s, p + 1, Len(s)), c)

RECURSIVE Join(_, _)
Join(segments, d) ==
    IF Len(segments) = 1 THEN segments[1]
    ELSE segments[1] \o d \o Join(Tail(segments), d)

Delimited(s, d) == Join(Split(Join(Split(s, " "), d), "_"), d)

NameOf(k) == get_name(motors[k][1], motors[k][2])

-----------------------------------------------------------------------------
(* C1 *)

\* C1: motor resolution never aborts and yields exactly M entries, one per
\* symbol with a resolved axis, each referencing a distinct symbol; a symbol
\* without an axis is left out and does not stop the others.
C1_OneEntryPerResolvedSymbol ==
    /\ pc # "raised"
    /\ MotorsListed =>
          /\ Len(motors) = Len(ResolvedSymbols)
          /\ \A k \in 1..Len(motors) : motors[k][1] = ResolvedSymbols[k]
    /\ MotorsBuilt =>
          /\ Len(template_motors) = Len(ResolvedSymbols)
          /\ \A k \in 1..Len(template_motors) :
                template_motors[k].desc[1] = ResolvedSymbols[k].name

-----------------------------------------------------------------------------
(* C2 *)

\* C2 as stated: a symbol with a pv pragma is named ('', tag of the first pv
\* match), whatever the short name, the prefix and the delimiter.
C2_PvPragmaNamesTheMotor ==
    /\ ClosuresCallable =>
          \A k \in 1..Len(motors) :
             HasPragma(motors[k][1], "pv") =>
                NameOf(k) = [raised |-> FALSE,
                             value |-> <<<< >>, FirstTag(motors[k][1], "pv")>>]
    /\ MotorsBuilt =>
          \A k \in 1..Len(motors) :
             HasPragma(motors[k][1], "pv") =>
                template_motors[k].name = <<<< >>, FirstTag(motors[k][1], "pv")>>

\* C2 amended: with pytmc importable, a symbol with a pv pragma is named
\* ('', tag of the first pv match), the tag verbatim; with pytmc missing the
\* pragma is not read and the name is the one derived from the short name.
C2_PvPragmaNamesTheMotorWithPytmc ==
    /\ ClosuresCallable =>
          \A k \in 1..Len(motors) :
             HasPragma(motors[k][1], "pv") =>
                IF pytmc
                THEN NameOf(k) = [raised |-> FALSE,
                                  value |-> <<<< >>, FirstTag(motors[k][1], "pv")>>]
                ELSE motors[k][2].resolved =>
                        NameOf(k).value =
                           <<args.prefix \o args.delim,
                             Delimited(motors[k][2].short_name, args.delim)>>
    /\ MotorsBuilt /\ pytmc =>
          \A k \in 1..Len(motors) :
             HasPragma(motors[k][1], "pv") =>
                template_motors[k].name = <<<< >>, FirstTag(motors[k][1], "pv")>>

\* A built motor whose first pv match is the first line of its second block,
\* with a tag holding a space and an underscore, and a delimiter other than ':'
C2_Witness ==
    /\ MotorsBuilt /\ pytmc
    /\ Len(motors) = 1
    /\ motors[1][1].props = LatePvProps
    /\ motors[1][2].short_name = <<"X", " ", "_">>
    /\ args.delim = <<"_", ":">>
    /\ template_motors[1].name = <<<< >>, <<"B", " ", "_">>>>

-----------------------------------------------------------------------------
(* C3 *)

\* C3: a symbol with no pv pragma is named (prefix + delimiter, short name
\* with every space and then every underscore replaced by the delimiter);
\* "X Axis_1" with ':' and "IOC" gives ("IOC:", "X:Axis:1").
C3_NameDerivedFromShortName ==
    /\ ClosuresCallable =>
          \A k \in 1..Len(motors) :
             ~HasPragma(motors[k][1], "pv") /\ motors[k][2].resolved =>
                /\ NameOf(k) =
                      [raised |-> FALSE,
                       value |-> <<args.prefix \o args.delim,
                                   Delimited(motors[k][2].short_name, args.delim)>>]
                /\ (/\ motors[k][2].short_name = ExampleShortName
                    /\ args.delim = <<":">>
                    /\ args.prefix = <<"I", "O", "C">>) =>
                      NameOf(k).value = << <<"I", "O", "C", ":">>,
                                           <<"X", ":", "A", "x", "i", "s", ":", "1">> >>
    /\ MotorsBuilt =>
          \A k \in 1..Len(motors) :
             ~HasPragma(motors[k][1], "pv") =>
                template_motors[k].name =
                   <<args.prefix \o args.delim,
                     Delimited(motors[k][2].short_name, args.delim)>>

\* The example of the claim, in a built motor
C3_Witness ==
    /\ MotorsBuilt
    /\ Len(motors) = 1
    /\ ~HasPragma(motors[1][1], "pv")
    /\ motors[1][2].short_name = ExampleShortName
    /\ args.delim = <<":">>
    /\ template_motors[1].name = << <<"I", "O", "C", ":">>,
                                    <<"X", ":", "A", "x", "i", "s", ":", "1">> >>

-----------------------------------------------------------------------------
(* C4 *)

FieldDefault(key) ==
    CASE key = "precision" -> <<"3">>
      [] key = "additional_fields" -> << >>
      [] key = "amplifier_flags" -> <<"0">>

FieldOf(entry, key) ==
    CASE key = "precision" -> entry.prec
      [] key = "additional_fields" -> entry.additional_fields
      [] key = "amplifier_flags" -> entry.amplifier_flags

FieldKeys == {"precision", "additional_fields", "amplifier_flags"}

\* C4 as stated: each of prec, additional_fields and amplifier_flags is the
\* tag of the first match for its key when the symbol has one, and the
\* default ("3", "", "0") only when it has none.
C4_FieldIsFirstMatchOrDefault ==
    MotorsBuilt =>
       \A k \in 1..Len(motors), key \in FieldKeys :
          FieldOf(template_motors[k], key) =
             IF HasPragma(motors[k][1], key) THEN FirstTag(motors[k][1], key)
             ELSE FieldDefault(key)

\* C4 amended: with pytmc importable, each field is the tag of the first
\* match for its key when there is a match and that tag is not empty; it is
\* the default when there is no match, when the first match has an empty
\* tag, and when pytmc is missing.
C4_FieldIsNonEmptyFirstMatchOrDefault ==
    MotorsBuilt =>
       \A k \in 1..Len(motors), key \in FieldKeys :
          FieldOf(template_motors[k], key) =
             IF pytmc /\ HasPragma(motors[k][1], key)
                      /\ FirstTag(motors[k][1], key) # << >>
             THEN FirstTag(motors[k][1], key)
             ELSE FieldDefault(key)

\* A built motor whose first property is no metadata block and whose second
\* has two precision lines, the first of them winning
C4_Witness ==
    /\ MotorsBuilt /\ pytmc
    /\ Len(motors) = 1
    /\ motors[1][1].props =
          <<OtherProp,
            Prop("pytmc", <<Line("precision", <<"A">>), Line("precision", <<"B">>)>>)>>
    /\ template_motors[1].prec = <<"A">>
    /\ template_motors[1].amplifier_flags = <<"0">>

-----------------------------------------------------------------------------
(* C5 *)

\* C5: the port handed to generation is the ads_port of the module of the
\* first resolved motor in find order, and 851 when no motor resolved, as
\* when the project has no drive-virtual symbol and motors is empty.
C5_PortOfFirstResolvedMotor ==
    LET expected == IF ResolvedSymbols # << >>
                    THEN ResolvedSymbols[1].module.ads_port ELSE 851
    IN  /\ PortChosen => ads_port = expected
        /\ rendered # << >> =>
              /\ rendered[1].plc_ads_port = expected
              /\ project.symbols = << >> => rendered[1].motors = << >>

\* A completed run over two motors in modules of different ports
C5_Witness ==
    /\ Completed
    /\ Len(project.symbols) = 2
    /\ project.symbols[1].module.ads_port = 852
    /\ project.symbols[2].module.ads_port = 851
    /\ rendered[1].plc_ads_port = 852

-----------------------------------------------------------------------------
(* C6 to C10: record generation *)

NestedCount == Len(project.nested_projects)

LintReported ==
    \E n \in 1..Len(calls) : project.nested_projects[calls[n]].tmc.lint_error

HasRecords(k) == project.nested_projects[k].tmc.records # << >>

\* The nested projects with record text, in declaration order
WithRecords == SelectSeq([k \in 1..NestedCount |-> k], HasRecords)

ExpectedFile(k) == project.nested_projects[k].filename.stem \o <<".", "d", "b">>

\* C6: a lint failure reported for any nested project ends the run with a
\* non-zero status; render() does not return and nothing is rendered or
\* printed.
C6_LintFailureIsFatal ==
    LintReported =>
       /\ pc = "exited"
       /\ exit_status = "1"
       /\ rendered = << >>
       /\ ~printed

\* A run that exited on the lint failure of its second nested project
C6_Witness ==
    /\ pc = "exited"
    /\ LintReported
    /\ Len(calls) = 2
    /\ exit_status = "1"

\* C7: --all-records without pytmc fails fast: the run logs a diagnostic and
\* exits non-zero before any record generation, any record file and any
\* rendering; it never goes on with an empty list of record files.
C7_AllRecordsNeedsPytmc ==
    args.all_records /\ ~pytmc =>
       /\ calls = << >>
       /\ writes = << >>
       /\ disk = << >>
       /\ rendered = << >>
       /\ ~printed
       /\ pc \notin {"nested", "render", "returned", "done"}
       /\ pc = "exited" =>
             /\ exit_status = "1"
             /\ log = <<"pytmc unavailable; cannot use --all-records.">>

\* A run with nested projects that exited at the check of the capability
C7_Witness ==
    /\ args.all_records /\ ~pytmc
    /\ pc = "exited"
    /\ exit_status = "1"
    /\ NestedCount > 0
    /\ log # << >>

\* C8: a completed run with --all-records called the generator once per
\* nested project in declaration order, and lists and wrote, under db_path,
\* one record file per nested project with record text, in that order;
\* without --all-records nothing is called, listed or written.
C8_OneRecordFilePerProjectWithRecords ==
    Completed =>
       IF args.all_records
       THEN /\ calls = [k \in 1..NestedCount |-> k]
            /\ additional_db_files =
                  [n \in 1..Len(WithRecords) |->
                      [file |-> ExpectedFile(WithRecords[n]), macros |-> << >>]]
            /\ writes =
                  [n \in 1..Len(WithRecords) |->
                      [proj |-> WithRecords[n],
                       path |-> <<args.db_path, ExpectedFile(WithRecords[n])>>,
                       text |-> project.nested_projects[WithRecords[n]].tmc.records]]
            /\ rendered[1].additional_db_files = additional_db_files
       ELSE /\ additional_db_files = << >>
            /\ rendered[1].additional_db_files = << >>
            /\ calls = << >>
            /\ writes = << >>
            /\ disk = << >>

\* A completed run over two nested projects, the first without record text
C8_Witness ==
    /\ Completed /\ args.all_records
    /\ NestedCount = 2
    /\ ~HasRecords(1) /\ HasRecords(2)
    /\ Len(additional_db_files) = 1
    /\ Len(calls) = 2

\* C9: when the run exits on the lint failure of the k-th nested project,
\* the record files of the earlier projects with record text are written and
\* on disk, no later project was processed and no file was written for the
\* k-th.
C9_WrittenFilesSurviveLintFailure ==
    pc = "exited" /\ LintReported =>
       LET k == calls[Len(calls)]
       IN  /\ calls = [n \in 1..k |-> n]
           /\ project.nested_projects[k].tmc.lint_error
           /\ \A j \in 1..(k - 1) :
                 HasRecords(j) =>
                    /\ \E n \in 1..Len(writes) : writes[n].proj = j
                    /\ <<args.db_path, ExpectedFile(j)>> \in DOMAIN disk
           /\ \A n \in 1..Len(writes) : writes[n].proj < k

\* A run that wrote the file of its first nested project and exited on the
\* lint failure of the second
C9_Witness ==
    /\ pc = "exited" /\ LintReported
    /\ Len(calls) = 2
    /\ Len(writes) = 1
    /\ DOMAIN disk # {}

\* C10: after a completed run with --all-records the listed files are
\* pairwise distinct and each holds the record text of the nested project
\* that produced its entry.
C10_RecordFilesDoNotCollide ==
    Completed /\ args.all_records =>
       /\ \A m, n \in 1..Len(additional_db_files) :
             m # n => additional_db_files[m].file # additional_db_files[n].file
       /\ \A n \in 1..Len(additional_db_files) :
             disk[<<args.db_path, additional_db_files[n].file>>] =
                project.nested_projects[writes[n].proj].tmc.records

====
